---- MODULE Spec2Model ----
(***************************************************************************)
(* A model of src/product_summary_api.py: the bullet extraction and the    *)
(* per-item fallback of ProductProcessor._generate_product_summary, the    *)
(* batch loop of ProductProcessor.process_json_document, the single        *)
(* document front of RAGApplication.process_json_file, the directory run   *)
(* of FolderProcessor.process_folder and the folder tab of main.           *)
(*                                                                         *)
(* Text is a sequence of one-character strings; the bullet U+2022 is the   *)
(* token "u2022".  A JSON value is a record tagged by kind; a JSON object  *)
(* (a Python dict) carries a function from its keys to JSON values.        *)
(***************************************************************************)
EXTENDS Integers, Sequences, FiniteSets, TLC

VARIABLES
    \* _generate_product_summary on one response (SpecExtract)
    xpc, response, summary,
    \* process_json_file / process_json_document (SpecDoc)
    pc, json_content, products, i, sink, llm_calls, doc_calls, idx,
    doc_state, raised, outcomes,
    \* main's folder tab / process_folder (SpecFolder)
    dpc, folder_path, fs, fs0, json_files, k, results, written

xvars == <<xpc, response, summary>>
docvars == <<pc, json_content, products, i, sink, llm_calls, doc_calls, idx,
             doc_state, raised, outcomes>>
dirvars == <<dpc, folder_path, fs, fs0, json_files, k, results, written>>
vars == <<xvars, docvars, dirvars>>

----------------------------------------------------------------------------
(* Bounds of the model *)

\* longest generated text enumerated for the extraction
MaxLen == 4
\* longest input array enumerated for a document
MaxItems == 4

----------------------------------------------------------------------------
(* Text *)

\* the characters of '•-*' (lines 67 and 69)
Markers == {"u2022", "-", "*"}

\* the characters str.strip() removes when called without argument: every
\* character str.isspace() holds of (U+0009-000D, U+001C-0020, U+0085,
\* U+00A0, U+1680, U+2000-200A, U+2028, U+2029, U+202F, U+205F, U+3000)
Whitespace ==
    { "\t", "\n", "x0b", "\f", "\r", "x1c", "x1d", "x1e", "x1f", " ",
      "x85", "xa0", "u1680", "u2000", "u2001", "u2002", "u2003", "u2004",
      "u2005", "u2006", "u2007", "u2008", "u2009", "u200a", "u2028", "u2029",
      "u202f", "u205f", "u3000" }

\* the characters generated texts are drawn from: the markers, a letter,
\* the line break, and three kinds of whitespace (space, no-break space,
\* form feed)
Alphabet == {"-", "*", "u2022", " ", "xa0", "\f", "a", "\n"}

Min(S) == CHOOSE m \in S : \A o \in S : m <= o

\* str.split(sep): the pieces between the occurrences of sep, at least one
RECURSIVE split(_, _)
split(s, sep) ==
    LET at == {j \in 1..Len(s) : s[j] = sep}
    IN  IF at = {} THEN <<s>>
        ELSE <<SubSeq(s, 1, Min(at) - 1)>>
                 \o split(SubSeq(s, Min(at) + 1, Len(s)), sep)

\* a mutant of lstrip: removes one leading character of chars at most
lstrip_one(s, chars) ==
    IF s # <<>> /\ Head(s) \in chars THEN Tail(s) ELSE s

\* str.lstrip(chars): drop leading characters while they are in chars
RECURSIVE lstrip(_, _)
lstrip(s, chars) ==
    IF s # <<>> /\ Head(s) \in chars THEN lstrip(Tail(s), chars) ELSE s

\* str.rstrip(chars)
RECURSIVE rstrip(_, _)
rstrip(s, chars) ==
    IF s # <<>> /\ s[Len(s)] \in chars
    THEN rstrip(SubSeq(s, 1, Len(s) - 1), chars) ELSE s

\* str.strip(): whitespace removed at both ends
strip(s) == rstrip(lstrip(s, Whitespace), Whitespace)

\* the list comprehension of lines 66-70
bullet_points(summary_text) ==
    LET points == split(summary_text, "\n")
        kept == SelectSeq(points,
                    LAMBDA point : strip(point) # <<>>
                                   /\ strip(point)[1] \in Markers)
    IN  [j \in 1..Len(kept) |-> strip(lstrip(strip(kept[j]), Markers))]

\* "Error generating summary" (line 76)
ErrorMarker ==
    <<"E","r","r","o","r"," ","g","e","n","e","r","a","t","i","n","g",
      " ","s","u","m","m","a","r","y">>

\* the fallback list returned by the except clause (line 76)
Fallback == <<ErrorMarker>>

(* An outcome of one summarization: json.dumps or the prompt formatting raises
   before the call, ollama.chat raises, response['message']['content'] is
   missing, or it holds text. *)
PrepareRaises == [kind |-> "prepare_error"]
ChatRaises == [kind |-> "chat_error"]
MissingField == [kind |-> "missing_field"]
Text(t) == [kind |-> "text", content |-> t]

(* What the notification sink (streamlit) receives: one note per st.* call,
   tagged by the call. *)
Progress(cur, total) == [type |-> "progress", cur |-> cur, total |-> total]
ErrorNote(text) == [type |-> "error", text |-> text]
Download(data) == [type |-> "download", data |-> data]
Shown(product) == [type |-> "json", product |-> product]
Info(remaining) == [type |-> "info", remaining |-> remaining]
Written(text) == [type |-> "write", text |-> text]
Warning(text) == [type |-> "warning", text |-> text]
Subheader(text) == [type |-> "subheader", text |-> text]
SuccessNote(text) == [type |-> "success", text |-> text]
Markdown(text) == [type |-> "markdown", text |-> text]
\* st.write(f"\nProduct {idx}:") (line 154)
ProductHeading(n) == [type |-> "write", heading |-> "Product", idx |-> n]
\* st.write(f"\u2022 {point}") (line 159)
PointLine(point) == [type |-> "write", bullet |-> "u2022", point |-> point]
\* st.success of line 212 for a file and its product count
ProcessedNote(file, count) ==
    [type |-> "success", file |-> file, count |-> count]

\* a mutant of summary_of: a failure yields an empty list, not the fallback
summary_of_empty(r) ==
    IF r.kind = "text" THEN bullet_points(r.content) ELSE <<>>

\* lines 51-76: what _generate_product_summary returns on response r
summary_of(r) ==
    IF r.kind = "text" THEN bullet_points(r.content) ELSE Fallback

\* line 75: what _generate_product_summary sends to the sink on response r
summary_notes(r) ==
    IF r.kind = "text" THEN <<>>
    ELSE <<ErrorNote("Error generating summary for product")>>


----------------------------------------------------------------------------
(* JSON values and documents *)

Num == [kind |-> "number"]
Str(t) == [kind |-> "string", s |-> t]
Arr(items) == [kind |-> "array", items |-> items]
Obj(f) == [kind |-> "object", fields |-> f]

\* isinstance(v, list) (line 22)
isinstance_list(v) == v.kind = "array"

\* a mutant of isinstance_dict: the type of the element is not checked
isinstance_any(v) == TRUE

\* isinstance(v, dict) (line 27)
isinstance_dict(v) == v.kind = "object"

\* ValueError("JSON content must be a list of products") (line 23)
ShapeError == "ValueError: JSON content must be a list of products"

\* what json.loads raises on an integer literal of more than 4300 digits
DigitsError == "ValueError: Exceeds the limit for integer string conversion"

(* The body of a content blob: bytes that are not UTF-8, text that is not
   JSON, the text of a JSON value, or the text of a JSON value beyond a limit
   of the decoder (an integer literal too long, nesting too deep), on which
   json.loads raises an exception that is not JSONDecodeError. *)
NotUtf8 == [form |-> "not_utf8"]
Malformed == [form |-> "malformed"]
Json(v) == [form |-> "json", value |-> v, raises |-> "none"]
JsonBeyond(v, error) == [form |-> "json", value |-> v, raises |-> error]

\* a mutant of json_loads: text that is not JSON decodes to an empty list
json_loads_lenient(body) ==
    IF body.form # "json" THEN [ok |-> TRUE, value |-> Arr(<<>>)]
    ELSE IF body.raises # "none" THEN [ok |-> FALSE, error |-> body.raises]
    ELSE [ok |-> TRUE, value |-> body.value]

\* json.loads (line 19): JSONDecodeError, another exception, or the value
json_loads(body) ==
    IF body.form # "json" THEN [ok |-> FALSE, error |-> "JSONDecodeError"]
    ELSE IF body.raises # "none" THEN [ok |-> FALSE, error |-> body.raises]
    ELSE [ok |-> TRUE, value |-> body.value]

\* a summary (a list of texts) as a JSON array of strings
JList(l) == Arr([j \in 1..Len(l) |-> Str(l[j])])

\* a mutant of set_ai_summary: the product is replaced by its summary alone
set_ai_summary_alone(product, l) ==
    Obj([key \in {"ai_summary"} |-> JList(l)])

\* product['ai_summary'] = summary (line 35)
set_ai_summary(product, l) ==
    Obj([key \in DOMAIN product.fields \cup {"ai_summary"} |->
            IF key = "ai_summary" THEN JList(l) ELSE product.fields[key]])

----------------------------------------------------------------------------
(* SpecExtract: _generate_product_summary on every response *)

RECURSIVE Texts(_)
Texts(n) ==
    IF n = 0 THEN {<<>>}
    ELSE Texts(n - 1)
         \cup {Append(t, c) : t \in {u \in Texts(n - 1) : Len(u) = n - 1},
                             c \in Alphabet}

Responses ==
    {PrepareRaises, ChatRaises, MissingField}
        \cup {Text(t) : t \in Texts(MaxLen)}

DocIdle ==
    /\ pc = "idle" /\ json_content = [enc |-> "str", body |-> Malformed]
    /\ products = <<>> /\ i = 0 /\ sink = <<>> /\ llm_calls = <<>>
    /\ doc_calls = 0 /\ idx = 0 /\ doc_state = "not_called"
    /\ raised = "none" /\ outcomes = <<>>

DirIdle ==
    /\ dpc = "idle" /\ folder_path = [exists |-> FALSE, listable |-> FALSE]
    /\ fs = <<>> /\ fs0 = <<>> /\ json_files = <<>>
    /\ k = 0 /\ results = <<>> /\ written = <<>>

XIdle == xpc = "idle" /\ response = ChatRaises /\ summary = <<>>

XInit ==
    /\ xpc = "call" /\ response \in Responses /\ summary = <<>>
    /\ DocIdle /\ DirIdle

\* lines 46-76 on the response drawn
GenerateSummary ==
    /\ xpc = "call"
    /\ summary' = summary_of(response)
    /\ sink' = sink \o summary_notes(response)
    /\ xpc' = "returned"
    /\ UNCHANGED <<response, pc, json_content, products, i, llm_calls,
                   doc_calls, idx, doc_state, raised, outcomes, dirvars>>

XNext == GenerateSummary

SpecExtract == XInit /\ [][XNext]_vars

----------------------------------------------------------------------------
(* Claims about the bullet extraction *)

\* the j-th smallest element of a finite set of integers
Nth(S, j) == CHOOSE m \in S : Cardinality({o \in S : o < m}) = j - 1

\* the positions of the line breaks of a text, and its number of lines
Breaks(t) == {p \in 1..Len(t) : t[p] = "\n"}
NumLines(t) == Cardinality(Breaks(t)) + 1

\* line j of a text: what lies between break j-1 and break j
LineOf(t, j) ==
    LET from == IF j = 1 THEN 1 ELSE Nth(Breaks(t), j - 1) + 1
        to == IF j = NumLines(t) THEN Len(t) ELSE Nth(Breaks(t), j) - 1
    IN  SubSeq(t, from, to)

\* a text without the whitespace around it
Trimmed(l) ==
    LET ink == {p \in 1..Len(l) : l[p] \notin Whitespace}
    IN  IF ink = {} THEN <<>>
        ELSE SubSeq(l, Min(ink), CHOOSE m \in ink : \A o \in ink : o <= m)

\* a line whose trimmed form is not empty and starts with a marker
IsMarkerLine(l) == Trimmed(l) # <<>> /\ Trimmed(l)[1] \in Markers

\* a marker line without its leading markers and the whitespace around
Cleaned(l) ==
    LET t == Trimmed(l)
        rest == {p \in 1..Len(t) : t[p] \notin Markers}
    IN  IF rest = {} THEN <<>> ELSE Trimmed(SubSeq(t, Min(rest), Len(t)))

\* the reference: the cleaned marker lines of a text, in line order
RefBullets(t) ==
    LET marked == {j \in 1..NumLines(t) : IsMarkerLine(LineOf(t, j))}
    IN  [m \in 1..Cardinality(marked) |-> Cleaned(LineOf(t, Nth(marked, m)))]

Extracted == xpc = "returned" /\ response.kind = "text"

\* C6: the extracted list is, in line order, exactly the cleaned lines whose
\* trimmed form starts with a marker; a text of N marker lines with content
\* gives N bullets, and a text with no marker line gives the empty list.
C6_ExtractionMatchesReference ==
    Extracted =>
        LET t == response.content
            lines == 1..NumLines(t)
        IN  /\ summary = RefBullets(t)
            /\ (\A j \in lines : /\ LineOf(t, j) # <<>>
                                 /\ LineOf(t, j)[1] \in Markers
                                 /\ Cleaned(LineOf(t, j)) # <<>>)
                   => Len(summary) = NumLines(t)
            /\ (\A j \in lines : ~IsMarkerLine(LineOf(t, j)))
                   => summary = <<>>

\* a text with a plain line before a marker line has been extracted
C6_Witness ==
    /\ Extracted
    /\ response.content = <<"a", "\n", "-", "a">>
    /\ summary = << <<"a">> >>

\* C7: no bullet of an extracted list is the empty string.
C7_BulletsNonEmpty ==
    Extracted => \A j \in 1..Len(summary) : summary[j] # <<>>

----------------------------------------------------------------------------
(* SpecDoc: process_json_file, process_json_document and the summaries *)

\* the number of enriched records previewed (processed_products[:3])
PreviewCount == 3

\* the elements input arrays are built from: a number, a product, and a
\* product that already has an ai_summary key
Elements ==
    { Num,
      Obj([key \in {"name"} |-> Str(<<"a">>)]),
      Obj([key \in {"name", "ai_summary"} |-> Str(<<"a">>)]) }

RECURSIVE Arrays(_)
Arrays(n) ==
    IF n = 0 THEN {<<>>}
    ELSE Arrays(n - 1)
         \cup {Append(a, e) : a \in {b \in Arrays(n - 1) : Len(b) = n - 1},
                             e \in Elements}

\* the documents: a top-level object, a top-level number, and the arrays
Documents ==
    {Obj([key \in {"a"} |-> Num]), Num} \cup {Arr(a) : a \in Arrays(MaxItems)}

\* the content blobs: text or bytes (line 135)
\* the bodies json.loads raises another exception on: an array holding an
\* integer literal over the digit limit, an object nested too deep
BeyondBodies ==
    { JsonBeyond(Arr(<<Num>>), DigitsError),
      JsonBeyond(Obj([key \in {"a"} |-> Num]), "RecursionError") }

Contents ==
    [enc : {"str", "bytes"},
     body : {Malformed} \cup {Json(v) : v \in Documents} \cup BeyondBodies]
        \cup {[enc |-> "bytes", body |-> NotUtf8]}

\* the text the generation capability answers with in a batch: a bullet
\* line followed by a plain line
ResponseTexts == { <<"u2022", "xa0", "a", "\n", "a">> }

\* the outcomes of one invocation of the generation capability
ChatOutcomes == {ChatRaises, MissingField} \cup {Text(t) : t \in ResponseTexts}

\* a mutant of progress_note: the position counted from zero
progress_note_from_zero(cur, total) == Progress(cur - 1, total)

\* st.progress(i / len(products), "Processing product i of len") (line 31)
progress_note(cur, total) == Progress(cur, total)

\* where process_json_document hands control back: to process_json_file
\* (lines 139, 167) or, in a directory run, to process_folder (100, 113)
on_return == IF dpc = "idle" THEN "file_download" ELSE "folder_write"
on_raise == IF dpc = "idle" THEN "file_except" ELSE "folder_except"

\* the array the document decodes to (the input of the batch)
Input == json_content.body.value.items

DocInit ==
    /\ pc = "file_start" /\ json_content \in Contents
    /\ products = <<>> /\ i = 0 /\ sink = <<>> /\ llm_calls = <<>>
    /\ doc_calls = 0 /\ idx = 0 /\ doc_state = "not_called"
    /\ raised = "none" /\ outcomes = <<>>
    /\ XIdle /\ DirIdle

\* lines 133-139: bytes are decoded, then process_json_document is called
FileStart ==
    /\ pc = "file_start"
    /\ IF json_content.enc = "bytes" /\ json_content.body = NotUtf8
       THEN /\ raised' = "UnicodeDecodeError"
            /\ pc' = "file_except"
            /\ UNCHANGED <<json_content, doc_calls, doc_state>>
       ELSE /\ json_content' = [json_content EXCEPT !.enc = "str"]
            /\ doc_calls' = doc_calls + 1
            /\ doc_state' = "running"
            /\ pc' = "doc_parse"
            /\ UNCHANGED raised
    /\ UNCHANGED <<products, i, sink, llm_calls, idx, outcomes, xvars,
                   dirvars>>

\* lines 17-26 and 39-44: decode, check the shape, enter the loop
DocParse ==
    /\ pc = "doc_parse"
    /\ LET r == json_loads(json_content.body)
       IN  IF ~r.ok /\ r.error = "JSONDecodeError"
           THEN /\ sink' = Append(sink, ErrorNote("Invalid JSON format"))
                /\ raised' = "JSONDecodeError"
                /\ doc_state' = "raised"
                /\ pc' = on_raise
                /\ UNCHANGED <<products, i>>
           ELSE IF ~r.ok
           THEN /\ sink' = Append(sink, ErrorNote("Error processing products"))
                /\ raised' = r.error
                /\ doc_state' = "raised"
                /\ pc' = on_raise
                /\ UNCHANGED <<products, i>>
           ELSE IF ~isinstance_list(r.value)
           THEN /\ sink' = Append(sink, ErrorNote("Error processing products"))
                /\ raised' = ShapeError
                /\ doc_state' = "raised"
                /\ pc' = on_raise
                /\ UNCHANGED <<products, i>>
           ELSE /\ products' = r.value.items
                /\ i' = 1
                /\ pc' = "loop"
                /\ UNCHANGED <<sink, raised, doc_state>>
    /\ UNCHANGED <<json_content, llm_calls, doc_calls, idx, outcomes, xvars,
                   dirvars>>

\* lines 27-28: an element that is not a dict is passed over
LoopSkip ==
    /\ pc = "loop" /\ i <= Len(products)
    /\ ~isinstance_dict(products[i])
    /\ i' = i + 1
    /\ UNCHANGED <<pc, json_content, products, sink, llm_calls, doc_calls,
                   idx, doc_state, raised, outcomes, xvars, dirvars>>

\* line 31: the progress notification of element i
LoopProgress ==
    /\ pc = "loop" /\ i <= Len(products)
    /\ isinstance_dict(products[i])
    /\ sink' = Append(sink, progress_note(i, Len(products)))
    /\ pc' = "summarize"
    /\ UNCHANGED <<json_content, products, i, llm_calls, doc_calls, idx,
                   doc_state, raised, outcomes, xvars, dirvars>>

(* Line 35 with summary l, after the notes the summarizer sent: the item
   assignment, which Python refuses (TypeError, lines 42-44) on a value
   that is not a dict. *)
Attach(l, sent) ==
    IF products[i].kind = "object"
    THEN /\ products' = [products EXCEPT ![i] = set_ai_summary(@, l)]
         /\ sink' = sink \o sent
         /\ i' = i + 1
         /\ pc' = "loop"
         /\ UNCHANGED <<doc_state, raised>>
    ELSE /\ sink' = sink \o sent
                        \o <<ErrorNote("Error processing products")>>
         /\ raised' = "TypeError"
         /\ doc_state' = "raised"
         /\ pc' = on_raise
         /\ UNCHANGED <<products, i>>

\* lines 49-60 and 74-76: json.dumps or the prompt formatting raises
PrepareFails ==
    /\ pc = "summarize"
    /\ Attach(summary_of(PrepareRaises), summary_notes(PrepareRaises))
    /\ outcomes' = outcomes @@ (i :> PrepareRaises)
    /\ UNCHANGED <<json_content, llm_calls, doc_calls, idx, xvars, dirvars>>

\* line 51: ollama.chat is called for element i
ChatInvoke ==
    /\ pc = "summarize"
    /\ llm_calls' = Append(llm_calls, i)
    /\ pc' = "chat"
    /\ UNCHANGED <<json_content, products, i, sink, doc_calls, idx,
                   doc_state, raised, outcomes, xvars, dirvars>>

\* lines 51-76 and 35: the call ends with outcome r
ChatReturn ==
    /\ pc = "chat"
    /\ \E r \in ChatOutcomes :
          /\ Attach(summary_of(r), summary_notes(r))
          /\ outcomes' = outcomes @@ (i :> r)
    /\ UNCHANGED <<json_content, llm_calls, doc_calls, idx, xvars, dirvars>>

\* line 37: return products
DocReturn ==
    /\ pc = "loop" /\ i > Len(products)
    /\ doc_state' = "returned"
    /\ pc' = on_return
    /\ UNCHANGED <<json_content, products, i, sink, llm_calls, doc_calls,
                   idx, raised, outcomes, xvars, dirvars>>

\* lines 142-152: the download is offered, the preview starts
FileDownload ==
    /\ pc = "file_download"
    /\ sink' = sink \o <<Download(products),
                          SuccessNote("Products processed successfully!"),
                          Subheader("Sample Results")>>
    /\ idx' = 1
    /\ pc' = "file_preview"
    /\ UNCHANGED <<json_content, products, i, llm_calls, doc_calls,
                   doc_state, raised, outcomes, xvars, dirvars>>

\* lines 157-162 for a previewed dict: the points of its ai_summary, and
\* the rule when another record follows
preview_points(n) ==
    LET points == products[n].fields["ai_summary"].items
    IN  [j \in 1..Len(points) |-> PointLine(points[j].s)]
        \o (IF n < Len(products) THEN <<Markdown("---")>> ELSE <<>>)

\* lines 153-162: record idx is shown, then its ai_summary is read, which
\* Python refuses (TypeError) on a value that is not a dict
FilePreview ==
    /\ pc = "file_preview"
    /\ idx <= Len(products) /\ idx <= PreviewCount
    /\ IF products[idx].kind = "object"
       THEN /\ sink' = sink \o <<ProductHeading(idx), Shown(products[idx]),
                                 Written("AI Summary:")>>
                           \o preview_points(idx)
            /\ idx' = idx + 1
            /\ UNCHANGED <<pc, raised>>
       ELSE /\ sink' = sink \o <<ProductHeading(idx), Shown(products[idx]),
                                 Written("AI Summary:")>>
            /\ raised' = "TypeError"
            /\ pc' = "file_except"
            /\ UNCHANGED idx
    /\ UNCHANGED <<json_content, products, i, llm_calls, doc_calls,
                   doc_state, outcomes, xvars, dirvars>>

\* lines 164-165: the count of the records not previewed
FileRemaining ==
    /\ pc = "file_preview"
    /\ ~(idx <= Len(products) /\ idx <= PreviewCount)
    /\ sink' = IF Len(products) > PreviewCount
               THEN Append(sink, Info(Len(products) - PreviewCount))
               ELSE sink
    /\ pc' = "file_done"
    /\ UNCHANGED <<json_content, products, i, llm_calls, doc_calls, idx,
                   doc_state, raised, outcomes, xvars, dirvars>>

\* lines 167-169: the error is reported and raised again
FileExcept ==
    /\ pc = "file_except"
    /\ sink' = Append(sink, ErrorNote("Error processing JSON file"))
    /\ pc' = "file_raised"
    /\ UNCHANGED <<json_content, products, i, llm_calls, doc_calls, idx,
                   doc_state, raised, outcomes, xvars, dirvars>>

DocNext ==
    \/ FileStart \/ DocParse \/ LoopSkip \/ LoopProgress \/ PrepareFails
    \/ ChatInvoke \/ ChatReturn \/ DocReturn \/ FileDownload \/ FilePreview
    \/ FileRemaining \/ FileExcept

SpecDoc == DocInit /\ [][DocNext]_vars

----------------------------------------------------------------------------
(* Claims about process_json_document *)

\* the content decodes to a JSON array
ArrayInput ==
    /\ json_content.body.form = "json"
    /\ json_content.body.raises = "none"
    /\ json_content.body.value.kind = "array"

IsMapping(v) == v.kind = "object"

\* the mapping positions of the input array
MappingPositions == {j \in 1..Len(Input) : IsMapping(Input[j])}

\* a JSON value that is a list of strings
IsListOfStrings(v) ==
    /\ v.kind = "array"
    /\ \A j \in 1..Len(v.items) : v.items[j].kind = "string"

\* the progress notifications received so far, in order
ProgressNotes == SelectSeq(sink, LAMBDA note : note.type = "progress")

\* the positions of the input array among S, in increasing order
Ascending(S) ==
    SelectSeq([j \in 1..Len(Input) |-> j], LAMBDA j : j \in S)

\* C1 as stated: the returned sequence has the input's length; a non-mapping
\* element is returned unchanged; a mapping element keeps every original key
\* with its original value and has ai_summary holding a list of strings.
C1_EveryKeyUnchanged ==
    (ArrayInput /\ doc_state = "returned") =>
        /\ Len(products) = Len(Input)
        /\ \A j \in 1..Len(Input) :
              IF IsMapping(Input[j])
              THEN /\ IsMapping(products[j])
                   /\ DOMAIN products[j].fields
                          = DOMAIN Input[j].fields \cup {"ai_summary"}
                   /\ \A key \in DOMAIN Input[j].fields :
                          products[j].fields[key] = Input[j].fields[key]
                   /\ IsListOfStrings(products[j].fields["ai_summary"])
              ELSE products[j] = Input[j]

\* C1 amended: as above, but the original keys kept with their values are
\* those other than ai_summary; an ai_summary the input held is replaced.
C1_OtherKeysUnchanged ==
    (ArrayInput /\ doc_state = "returned") =>
        /\ Len(products) = Len(Input)
        /\ \A j \in 1..Len(Input) :
              IF IsMapping(Input[j])
              THEN /\ IsMapping(products[j])
                   /\ DOMAIN products[j].fields
                          = DOMAIN Input[j].fields \cup {"ai_summary"}
                   /\ \A key \in DOMAIN Input[j].fields \ {"ai_summary"} :
                          products[j].fields[key] = Input[j].fields[key]
                   /\ IsListOfStrings(products[j].fields["ai_summary"])
              ELSE products[j] = Input[j]

\* a batch with a number, a product and a product that had an ai_summary
\* has returned
C1_Witness ==
    /\ ArrayInput /\ doc_state = "returned"
    /\ \E a, b, c \in 1..Len(Input) :
          /\ ~IsMapping(Input[a])
          /\ IsMapping(Input[b]) /\ DOMAIN Input[b].fields = {"name"}
          /\ IsMapping(Input[c]) /\ "ai_summary" \in DOMAIN Input[c].fields

\* C2: on an array input no summarization failure reaches
\* process_json_document: the call never raises, every element whose
\* summarization failed holds exactly the fallback list, the loop goes on
\* after a failure, and at the return every mapping element was processed.
C2_FailureIsolation ==
    ArrayInput =>
        /\ doc_state # "raised"
        /\ \A j \in DOMAIN outcomes :
              outcomes[j].kind # "text"
                  => products[j].fields["ai_summary"] = JList(Fallback)
        /\ doc_state = "running" => ENABLED DocNext
        /\ doc_state = "returned" =>
              /\ DOMAIN outcomes = MappingPositions
              /\ \A j \in MappingPositions :
                    "ai_summary" \in DOMAIN products[j].fields

\* a batch has returned in which a summarization failed in each of the
\* three ways and a later element was still summarized from text
C2_Witness ==
    /\ ArrayInput /\ doc_state = "returned"
    /\ \E a, b, c, d \in DOMAIN outcomes :
          /\ a < d /\ b < d /\ c < d
          /\ outcomes[a].kind = "prepare_error"
          /\ outcomes[b].kind = "chat_error"
          /\ outcomes[c].kind = "missing_field"
          /\ outcomes[d].kind = "text"

\* the error process_json_document raises on the content before its loop:
\* none when json.loads returns an array
DocFault ==
    IF json_content.body.form = "not_utf8" THEN "none"
    ELSE IF json_content.body.form = "malformed" THEN "JSONDecodeError"
    ELSE IF json_content.body.raises # "none" THEN json_content.body.raises
    ELSE IF json_content.body.value.kind # "array" THEN ShapeError
    ELSE "none"

\* the error C4 as stated expects: the decode error for text that is not
\* JSON, the shape error for every JSON text whose top-level value is not an
\* array
StatedFault ==
    IF json_content.body.form = "not_utf8" THEN "none"
    ELSE IF json_content.body.form = "malformed" THEN "JSONDecodeError"
    ELSE IF json_content.body.value.kind # "array" THEN ShapeError
    ELSE "none"

\* the call raises fault, after reporting it and before doing anything for
\* an element
FatalWith(fault) ==
    /\ doc_state # "returned"
    /\ llm_calls = <<>> /\ ProgressNotes = <<>> /\ outcomes = <<>>
    /\ products = <<>>
    /\ pc \notin {"file_start", "doc_parse"} =>
          /\ doc_state = "raised"
          /\ raised = fault
          /\ sink[1] = ErrorNote(IF fault = "JSONDecodeError"
                                 THEN "Invalid JSON format"
                                 ELSE "Error processing products")
    /\ pc \in {"file_start", "doc_parse", "file_except", "file_raised"}

\* C4 as stated: content that is not JSON makes the call raise the decode
\* error, JSON whose top-level value is not an array the shape error; the
\* error is reported to the sink and raised again, nothing is returned, and
\* no element is summarized or notified.
C4_ShapeErrorForEveryNonArray ==
    StatedFault # "none" => FatalWith(StatedFault)

\* C4 amended: text json.loads rejects raises the decode error, a value
\* json.loads returns that is not a list raises the shape error, and JSON
\* text on which json.loads itself fails otherwise (a limit of the decoder)
\* raises that exception; in each case the error is reported to the sink and
\* raised again, nothing is returned, and no element is summarized or
\* notified.
C4_DocumentErrorsFatal ==
    DocFault # "none" => FatalWith(DocFault)

\* the shape error has been raised on a top-level object
C4_Witness ==
    /\ doc_state = "raised" /\ raised = ShapeError
    /\ json_content.body = Json(Obj([key \in {"a"} |-> Num]))

\* C5 as stated: every progress notification received is for an element
\* that has completed, and at the return there are n of them, the j-th
\* carrying (j, n).
C5_ProgressAfterEachElement ==
    (ArrayInput /\ doc_state \in {"running", "returned"}
                /\ pc # "doc_parse") =>
        /\ \A m \in 1..Len(ProgressNotes) : ProgressNotes[m].cur < i
        /\ doc_state = "returned" =>
              ProgressNotes
                  = [j \in 1..Len(Input) |-> Progress(j, Len(Input))]

\* C5 amended: the progress notifications are exactly one (j, n) for every
\* mapping position j reached so far, in increasing order, none for a
\* skipped element; and the notification of an element is emitted before
\* its summarization starts: when it has just been emitted the element is
\* still as in the input and the capability was not invoked for it.
C5_ProgressBeforeEachMapping ==
    (ArrayInput /\ doc_state \in {"running", "returned"}
                /\ pc # "doc_parse") =>
        LET reached == {j \in MappingPositions :
                           j < i \/ (j = i /\ pc \in {"summarize", "chat"})}
            order == Ascending(reached)
        IN  /\ ProgressNotes
                   = [m \in 1..Len(order) |-> Progress(order[m], Len(Input))]
            /\ pc = "summarize" =>
                  /\ products[i] = Input[i]
                  /\ \A m \in 1..Len(llm_calls) : llm_calls[m] # i
                  /\ i \notin DOMAIN outcomes
            /\ \A m \in 1..Len(llm_calls) :
                  \E q \in 1..Len(ProgressNotes) :
                      ProgressNotes[q].cur = llm_calls[m]

\* a batch whose second element of three is a number has returned
C5_Witness ==
    /\ ArrayInput /\ doc_state = "returned"
    /\ Len(Input) = 3 /\ MappingPositions = {1, 3}
    /\ Len(ProgressNotes) = 2

\* C9: the generation capability is invoked at most once per mapping
\* element, never for another element, in increasing position order; while
\* an invocation is outstanding, and at every other moment, nothing has been
\* done for any later element, and every earlier invocation has ended; the
\* empty array returns empty without an invocation.
C9_SingleSequentialAttempt ==
    (ArrayInput /\ doc_state \in {"running", "returned"}
                /\ pc # "doc_parse") =>
        /\ \A m \in 1..Len(llm_calls) : llm_calls[m] \in MappingPositions
        /\ \A m, q \in 1..Len(llm_calls) : m < q => llm_calls[m] < llm_calls[q]
        /\ \A m \in 1..Len(llm_calls) :
              IF pc = "chat" /\ m = Len(llm_calls)
              THEN llm_calls[m] = i /\ i \notin DOMAIN outcomes
              ELSE llm_calls[m] < i /\ llm_calls[m] \in DOMAIN outcomes
        /\ \A j \in 1..Len(Input) :
              j > i => /\ products[j] = Input[j]
                       /\ j \notin DOMAIN outcomes
                       /\ \A m \in 1..Len(ProgressNotes) :
                             ProgressNotes[m].cur # j
        /\ (Input = <<>> /\ doc_state = "returned") =>
              products = <<>> /\ llm_calls = <<>>

\* a batch has returned after two invocations around a skipped element, the
\* first of which failed
C9_Witness ==
    /\ ArrayInput /\ doc_state = "returned"
    /\ llm_calls = <<1, 3>> /\ ~IsMapping(Input[2])
    /\ outcomes[1].kind = "chat_error"

\* C8: on every array process_json_document is called once and
\* process_json_file completes without raising, offering the download,
\* previewing the first min(3, n) enriched records in order and telling the
\* remaining count n - 3 exactly when n > 3; when process_json_document or
\* the decoding of the bytes fails, the error is reported and raised again
\* and no download is offered.
C8_SingleDocumentMode ==
    LET shown == SelectSeq(sink, LAMBDA note : note.type = "json")
        headings == SelectSeq(sink, LAMBDA note :
                        note.type = "write" /\ "heading" \in DOMAIN note)
        infos == SelectSeq(sink, LAMBDA note : note.type = "info")
        offers == SelectSeq(sink, LAMBDA note : note.type = "download")
        n == Len(products)
        m == IF n < PreviewCount THEN n ELSE PreviewCount
    IN  /\ ArrayInput =>
              /\ doc_calls <= 1
              /\ pc \notin {"file_except", "file_raised"}
              /\ pc = "file_done" =>
                    /\ doc_calls = 1
                    /\ offers = <<Download(products)>>
                    /\ shown = [j \in 1..m |-> Shown(products[j])]
                    /\ headings = [j \in 1..m |-> ProductHeading(j)]
                    /\ infos = IF n > PreviewCount
                               THEN <<Info(n - PreviewCount)>> ELSE <<>>
        /\ (json_content.body.form = "not_utf8" \/ DocFault # "none") =>
              /\ offers = <<>>
              /\ pc # "file_done"
              /\ pc = "file_raised" =>
                    sink[Len(sink)] = ErrorNote("Error processing JSON file")

----------------------------------------------------------------------------
(* SpecFolder: the folder tab of main and process_folder on a directory;
   each file goes through the steps of process_json_document above. *)

(* A directory entry: Path.name is stem \o suffix. *)
File(stem, suffix) == [stem |-> stem, suffix |-> suffix]
name(f) == f.stem \o f.suffix

\* the entries a directory is populated from
DirNames ==
    { File("a", ".json"), File("processed_a", ".json"), File("b", ".json"),
      File("a", ".txt") }

\* an entry that cannot be opened for reading (a directory, no permission)
Unreadable == [form |-> "unreadable"]

\* what a .json entry holds
FileBodies ==
    { Unreadable, Malformed, Json(Obj([key \in {"a"} |-> Num])),
      Json(Arr(<<>>)),
      Json(Arr(<<Num, Obj([key \in {"name"} |-> Str(<<"a">>)])>>)),
      JsonBeyond(Arr(<<Num>>), DigitsError) }

\* the directories: every set of entries with every content
Directories ==
    UNION { {d \in [S -> FileBodies \cup {NotUtf8}] :
                \A f \in S : (f.suffix = ".json") = (d[f] \in FileBodies)}
            : S \in SUBSET DirNames }

\* the folder paths: one that does not exist, one that exists and cannot be
\* listed (glob raises OSError), one that can
FolderPaths ==
    { [exists |-> FALSE, listable |-> FALSE],
      [exists |-> TRUE, listable |-> FALSE],
      [exists |-> TRUE, listable |-> TRUE] }

\* folder_path.glob("*.json") (line 87)
glob_json(d) == {f \in DOMAIN d : f.suffix = ".json"}

\* the orders a set may be listed in
Orders(S) ==
    {o \in [1..Cardinality(S) -> S] :
        \A a, b \in 1..Cardinality(S) : a # b => o[a] # o[b]}

\* folder_path / f"processed_{json_file.name}" (line 103)
output_path(f) == File("processed_" \o f.stem, f.suffix)

\* the outcomes of lines 104-105: written, open() refused, or json.dump
\* failed after open() truncated the file
WriteOutcomes == {"written", "open_error", "dump_error"}

Success(path, count) ==
    [status |-> "success", output_path |-> path, product_count |-> count]
Failure(error) == [status |-> "error", error |-> error]

\* the value of key in a map after map[key] = value (lines 107, 114)
assign(map, key, value) ==
    [q \in DOMAIN map \cup {key} |-> IF q = key THEN value ELSE map[q]]

DirInit ==
    /\ dpc = "main" /\ folder_path \in FolderPaths
    /\ fs0 \in Directories
    /\ (~folder_path.listable) => fs0 = <<>>
    /\ fs = fs0
    /\ json_files = <<>> /\ k = 0 /\ results = <<>> /\ written = <<>>
    /\ XIdle /\ DocIdle

\* lines 200-206: the folder tab of main; a path that does not exist is
\* reported and process_folder is not called
MainFolder ==
    /\ dpc = "main"
    /\ IF ~folder_path.exists
       THEN /\ sink' = Append(sink, ErrorNote("Folder path does not exist!"))
            /\ dpc' = "main_done"
       ELSE /\ dpc' = "start"
            /\ UNCHANGED sink
    /\ UNCHANGED <<folder_path, fs, fs0, json_files, k, results, written,
                   pc, json_content, products, i, llm_calls, doc_calls, idx,
                   doc_state, raised, outcomes, xvars>>

\* lines 86-91: the files are listed; none found is a warning
Discover ==
    /\ dpc = "start" /\ folder_path.listable
    /\ \E o \in Orders(glob_json(fs)) : json_files' = o
    /\ IF glob_json(fs) = {}
       THEN /\ sink' = Append(sink, Warning("No JSON files found"))
            /\ dpc' = "returned"
            /\ UNCHANGED k
       ELSE /\ k' = 1
            /\ dpc' = "files"
            /\ UNCHANGED sink
    /\ UNCHANGED <<folder_path, fs, fs0, results, written,
                   pc, json_content, products, i, llm_calls, doc_calls, idx,
                   doc_state, raised, outcomes, xvars>>

\* lines 87 and 122-124: the listing raises; the error is reported and
\* raised again, out of process_folder and of main
ListingFails ==
    /\ dpc = "start" /\ ~folder_path.listable
    /\ sink' = Append(sink, ErrorNote("Error processing folder"))
    /\ raised' = "OSError"
    /\ dpc' = "raised"
    /\ UNCHANGED <<folder_path, fs, fs0, json_files, k, results, written,
                   pc, json_content, products, i, llm_calls, doc_calls, idx,
                   doc_state, outcomes, xvars>>

\* lines 94-100 for json_files[k]: the file is announced and read, and
\* process_json_document is called on its text
FolderRead ==
    /\ dpc = "files" /\ pc = "idle" /\ k <= Len(json_files)
    /\ LET f == json_files[k]
       IN  /\ sink' = Append(sink, Written("Processing " \o name(f)))
           /\ IF fs[f] = Unreadable
              THEN /\ raised' = "OSError"
                   /\ pc' = "folder_except"
                   /\ UNCHANGED <<json_content, doc_calls, doc_state>>
              ELSE /\ json_content' = [enc |-> "str", body |-> fs[f]]
                   /\ doc_calls' = doc_calls + 1
                   /\ doc_state' = "running"
                   /\ pc' = "doc_parse"
                   /\ raised' = "none"
    /\ products' = <<>> /\ i' = 0 /\ llm_calls' = <<>> /\ outcomes' = <<>>
    /\ UNCHANGED <<idx, xvars, dirvars>>

\* lines 103-111: the enriched list is written and the success recorded
FolderWrite ==
    /\ dpc = "files" /\ pc = "folder_write"
    /\ LET f == json_files[k]
       IN  \E w \in WriteOutcomes :
             IF w = "open_error"
             THEN /\ raised' = "OSError"
                  /\ pc' = "folder_except"
                  /\ UNCHANGED <<fs, written, results, k>>
             ELSE IF w = "dump_error"
             THEN /\ fs' = assign(fs, output_path(f), Malformed)
                  /\ written' = Append(written, output_path(f))
                  /\ raised' = "OSError"
                  /\ pc' = "folder_except"
                  /\ UNCHANGED <<results, k>>
             ELSE /\ fs' = assign(fs, output_path(f), Json(Arr(products)))
                  /\ written' = Append(written, output_path(f))
                  /\ results' = assign(results, name(f),
                                  Success(name(output_path(f)), Len(products)))
                  /\ k' = k + 1
                  /\ pc' = "idle"
                  /\ UNCHANGED raised
    /\ UNCHANGED <<dpc, folder_path, fs0, json_files, json_content, products,
                   i, sink, llm_calls, doc_calls, idx, doc_state, outcomes,
                   xvars>>

\* lines 113-118: the failure of the file is recorded and reported
FolderExcept ==
    /\ dpc = "files" /\ pc = "folder_except"
    /\ LET f == json_files[k]
       IN  /\ results' = assign(results, name(f), Failure(raised))
           /\ sink' = Append(sink, ErrorNote("Error processing " \o name(f) \o ": "
                                             \o raised))
    /\ raised' = "none"
    /\ k' = k + 1
    /\ pc' = "idle"
    /\ UNCHANGED <<dpc, folder_path, fs, fs0, json_files, written,
                   json_content, products, i, llm_calls, doc_calls, idx,
                   doc_state, outcomes, xvars>>

\* line 120: return results
ReturnResults ==
    /\ dpc = "files" /\ pc = "idle" /\ k > Len(json_files)
    /\ dpc' = "returned"
    /\ UNCHANGED <<folder_path, fs, fs0, json_files, k, results, written,
                   docvars, xvars>>

\* the notes of lines 210-215 for the files from position m on, in the
\* order of results.items() (the order the files were recorded in)
RECURSIVE result_notes(_)
result_notes(m) ==
    IF m > Len(json_files) THEN <<>>
    ELSE LET key == name(json_files[m])
         IN  (IF results[key].status = "success"
              THEN <<ProcessedNote(key, results[key].product_count),
                     Written(results[key].output_path)>>
              ELSE <<ErrorNote(key \o ": " \o results[key].error)>>)
             \o result_notes(m + 1)

\* lines 208-215: main shows the outcome of every file
MainReport ==
    /\ dpc = "returned"
    /\ sink' = sink \o <<Subheader("Processing Results")>> \o result_notes(1)
    /\ dpc' = "main_done"
    /\ UNCHANGED <<folder_path, fs, fs0, json_files, k, results, written,
                   pc, json_content, products, i, llm_calls, doc_calls, idx,
                   doc_state, raised, outcomes, xvars>>

DirNext ==
    \/ MainFolder \/ Discover \/ ListingFails \/ FolderRead
    \/ DocParse \/ LoopSkip \/ LoopProgress \/ PrepareFails
    \/ ChatInvoke \/ ChatReturn \/ DocReturn
    \/ FolderWrite \/ FolderExcept \/ ReturnResults \/ MainReport

SpecFolder == DirInit /\ [][DirNext]_vars

----------------------------------------------------------------------------
(* Claims about process_folder *)

\* the files discovered, and those of them that are malformed JSON in the
\* directory as the run found it
Discovered == {json_files[m] : m \in 1..Len(json_files)}
MalformedFound == {f \in Discovered : fs0[f] = Malformed}

\* every other discovered file is a readable JSON array, and no write failed
OthersWellFormed ==
    /\ \A f \in Discovered \ MalformedFound :
          /\ fs0[f].form = "json" /\ fs0[f].raises = "none"
          /\ fs0[f].value.kind = "array"
    /\ \A key \in DOMAIN results :
          results[key].status = "error"
              => results[key].error = "JSONDecodeError"

\* C3: a directory run over K discovered files, F of them malformed JSON and
\* the others readable arrays, ends with one outcome per discovered file
\* name, F of them errors and K - F successes.
C3_OneOutcomePerFile ==
    dpc = "returned" =>
        /\ DOMAIN results = {name(f) : f \in Discovered}
        /\ Cardinality(DOMAIN results) = Len(json_files)
        /\ OthersWellFormed =>
              /\ Cardinality({key \in DOMAIN results :
                                 results[key].status = "error"})
                     = Cardinality(MalformedFound)
              /\ Cardinality({key \in DOMAIN results :
                                 results[key].status = "success"})
                     = Len(json_files) - Cardinality(MalformedFound)

\* C10: no output file of a run has the path of a discovered input file or
\* of another output file of the run.
C10_NoFileCollision ==
    /\ \A m \in 1..Len(written) : written[m] \notin Discovered
    /\ \A m, q \in 1..Len(written) : m # q => written[m] # written[q]

====
